---- MODULE Spec2Model ----
(***************************************************************************)
(* Model of datas2/bus-stop-api.                                           *)
(*                                                                         *)
(*   utils/rate_limit.py   the sliding-window rate limiter                 *)
(*   main.py               the HTTP middleware that consults it            *)
(*   controllers/bus_stop_controller.py   the listing and nearby queries   *)
(*   utils/parquet.py      query_stops, the tabular query executor         *)
(*   utils/auth.py         require_api_key, the API-key dependency         *)
(*                                                                         *)
(* Spec   : rate_limiter called directly, one whole call per step, with    *)
(*          any client and any reading of time.time().                     *)
(* MwSpec : requests travelling through rate_limit_middleware, statement   *)
(*          by statement, scheduled as the asyncio event loop schedules    *)
(*          them (a task runs until it awaits).                            *)
(* CtrlSpec : one controller call, with any arguments, against any small   *)
(*          dataset; the SQL it sends is evaluated over the dataset.       *)
(* AuthSpec : require_api_key called with any header value, for any value  *)
(*          of the API_KEY environment variable.                           *)
(* HavSpec : the distance expression of the nearby queries, evaluated in   *)
(*          fixed point between two points, from either of them.           *)
(* StoreSpec : query_stops, statement by statement, with its DuckDB        *)
(*          connection.                                                    *)
(***************************************************************************)
EXTENDS Integers, Sequences, FiniteSets, TLC

(* ---------------------------------------------------------------------- *)
(* Bounds and program constants                                           *)
(* ---------------------------------------------------------------------- *)

\* rate_limit.py:6 (600 in production; the tests patch it to 2 and 3)
MAX_REQUESTS == 2

\* rate_limit.py:7 (60 in production; the tests patch it to 10)
WINDOW_SECONDS == 2

\* largest reading of time.time() the model draws
MaxTime == 2

\* number of requests that can be in flight at once in MwSpec
NumReqs == 2

\* client identifiers (request.client.host)
Clients == {"a", "b"}

\* readings of time.time()
Times == 0..MaxTime

\* length of the longest call sequence explored by Spec
MaxCalls == MAX_REQUESTS + 3

Reqs == 1..NumReqs

VARIABLES
    REQUESTS,   \* rate_limit.py:4  defaultdict(list): client -> timestamps
    trace,      \* Spec: the calls made so far, in order
    pc,         \* MwSpec: position of the request in each slot
    client,     \* MwSpec: client_ip of each request
    now,        \* MwSpec: local `now` of a request inside rate_limiter
    arg,        \* MwSpec: client_id argument of a request's rate_limiter call
    ret,        \* MwSpec: value rate_limiter returned to the request
    running,    \* MwSpec: the task holding the event loop, 0 when none
    rlCalls,    \* MwSpec: number of rate_limiter calls made for a request
    nextCalled, \* MwSpec: call_next(request) was invoked
    authRun,    \* MwSpec: require_api_key was executed
    handlerRun, \* MwSpec: a route handler was executed
    storeRun,   \* MwSpec: query_stops was executed
    status,     \* MwSpec: HTTP status of the response, 0 while pending
    stops,      \* CtrlSpec: the rows of data/stops.parquet, in file order
    ctlCall,    \* CtrlSpec: the controller call made, with its arguments
    queries,    \* CtrlSpec: the query_stops calls it made, with their results
    outcome,    \* CtrlSpec: what the call returned or raised
    API_KEY,    \* auth.py:8  os.environ.get("API_KEY"), read at import
    authTrace,  \* AuthSpec: the require_api_key calls made so far
    havPair,    \* HavSpec: the reference point and the row point
    havOut,     \* HavSpec: the distance measured each way
    qpc,        \* StoreSpec: position inside query_stops
    qLog        \* StoreSpec: the query_stops calls and their connections

vars == <<REQUESTS, trace, pc, client, now, arg, ret, running, rlCalls,
          nextCalled, authRun, handlerRun, storeRun, status,
          stops, ctlCall, queries, outcome,
          API_KEY, authTrace, havPair, havOut, qpc, qLog>>

ctlVars == <<stops, ctlCall, queries, outcome>>

authVars == <<API_KEY, authTrace>>

\* the variables of the specifications of single functions
havVars == <<havPair, havOut>>

storeVars == <<qpc, qLog>>

libVars == <<authVars, havVars, storeVars>>

mwVars == <<pc, client, now, arg, ret, running, rlCalls,
            nextCalled, authRun, handlerRun, storeRun, status>>

(* ---------------------------------------------------------------------- *)
(* utils/rate_limit.py                                                    *)
(* ---------------------------------------------------------------------- *)

\* REQUESTS[client_id] of a defaultdict(list): a missing key reads as []
Entry(R, client_id) ==
    IF client_id \in DOMAIN R THEN R[client_id] ELSE <<>>

\* variant: one list shared by every key
Store_shared(R, client_id, lst) ==
    [k \in (DOMAIN R) \cup {client_id} |-> lst]

\* assignment REQUESTS[client_id] = lst (creates the key when missing)
Store(R, client_id, lst) ==
    [k \in (DOMAIN R) \cup {client_id} |-> IF k = client_id THEN lst ELSE R[k]]

\* variant: the window is one second shorter
window_start_short(t_now) == t_now - WINDOW_SECONDS + 1

\* variant: the window is one second longer
window_start_long(t_now) == t_now - WINDOW_SECONDS - 1

\* line 11: window_start = now - WINDOW_SECONDS
window_start(t_now) == t_now - WINDOW_SECONDS

\* variant: t >= window_start
Keep_inclusive(t, ws) == t >= ws

\* line 14: the comprehension's condition  t > window_start
Keep(t, ws) == t > ws

\* variant: nothing is filtered out
Pruned_unfiltered(R, client_id, t_now) ==
    Store(R, client_id, Entry(R, client_id))

\* lines 13-15: REQUESTS[client_id] = [t for t in REQUESTS[client_id] if t > window_start]
Pruned(R, client_id, t_now) ==
    Store(R, client_id,
          SelectSeq(Entry(R, client_id), LAMBDA t : Keep(t, window_start(t_now))))

\* variant: len(REQUESTS[client_id]) > MAX_REQUESTS
AtLimit_strict(R, client_id) == Len(Entry(R, client_id)) > MAX_REQUESTS

\* line 17: len(REQUESTS[client_id]) >= MAX_REQUESTS
AtLimit(R, client_id) == Len(Entry(R, client_id)) >= MAX_REQUESTS

\* variant: REQUESTS[client_id].insert(0, now)
Appended_front(R, client_id, t_now) ==
    Store(R, client_id, <<t_now>> \o Entry(R, client_id))

\* variant: REQUESTS[client_id] = [now]
Appended_overwrite(R, client_id, t_now) ==
    Store(R, client_id, <<t_now>>)

\* line 20: REQUESTS[client_id].append(now)
Appended(R, client_id, t_now) ==
    Store(R, client_id, Append(Entry(R, client_id), t_now))

\* variant: now is recorded before the limit is tested
rate_limiter_records_first(R, client_id, t_now) ==
    LET P == Pruned(R, client_id, t_now) IN
    [requests |-> Appended(P, client_id, t_now),
     result   |-> ~AtLimit(P, client_id)]

\* lines 9-21: the whole call; the new map and the returned value
rate_limiter(R, client_id, t_now) ==
    LET P == Pruned(R, client_id, t_now) IN
    IF AtLimit(P, client_id)
    THEN [requests |-> P, result |-> FALSE]
    ELSE [requests |-> Appended(P, client_id, t_now), result |-> TRUE]

(* ---------------------------------------------------------------------- *)
(* Initial state                                                          *)
(* ---------------------------------------------------------------------- *)

RlInit ==
    /\ REQUESTS = [k \in {} |-> <<>>]
    /\ trace = <<>>
    /\ pc = [r \in Reqs |-> "idle"]
    /\ client = [r \in Reqs |-> "a"]
    /\ now = [r \in Reqs |-> 0]
    /\ arg = [r \in Reqs |-> "none"]
    /\ ret = [r \in Reqs |-> "none"]
    /\ running = 0
    /\ rlCalls = [r \in Reqs |-> 0]
    /\ nextCalled = [r \in Reqs |-> FALSE]
    /\ authRun = [r \in Reqs |-> FALSE]
    /\ handlerRun = [r \in Reqs |-> FALSE]
    /\ storeRun = [r \in Reqs |-> FALSE]
    /\ status = [r \in Reqs |-> 0]

\* the environment variable API_KEY is absent, or holds the text v
Unset == [set |-> FALSE, val |-> ""]
Env(v) == [set |-> TRUE, val |-> v]

\* require_api_key is not called
NoAuth ==
    /\ API_KEY = Unset
    /\ authTrace = <<>>

\* nothing measured yet
NotMeasured == [done |-> FALSE, there |-> 0, back |-> 0]

\* the distance expression is not evaluated on its own
NoHav ==
    /\ havPair = [ref |-> <<0, 0>>, row |-> <<0, 0>>]
    /\ havOut = NotMeasured

\* query_stops is not stepped through
NoStore ==
    /\ qpc = "idle"
    /\ qLog = <<>>

\* outside their own specifications the single functions are not called
LibInit ==
    /\ NoAuth
    /\ NoHav
    /\ NoStore

\* no controller call yet
NoCall ==
    [op |-> "none", limit |-> 0, offset |-> 0,
     name |-> [some |-> FALSE, val |-> <<>>], stop_code |-> 0,
     stop_name |-> <<>>, radius_m |-> 0, lat |-> 0, lon |-> 0]

NoOutcome ==
    [kind |-> "none", status |-> 0, exc |-> "none", detail |-> <<>>,
     ref |-> <<>>, count |-> 0, results |-> <<>>]

Init ==
    /\ RlInit
    /\ LibInit
    /\ stops = <<>>
    /\ ctlCall = NoCall
    /\ queries = <<>>
    /\ outcome = NoOutcome

(* ---------------------------------------------------------------------- *)
(* Spec: rate_limiter called directly                                     *)
(* ---------------------------------------------------------------------- *)

\* one call rate_limiter(client_id) in which time.time() returns t_now
Call(client_id, t_now) ==
    LET out == rate_limiter(REQUESTS, client_id, t_now) IN
    /\ Len(trace) < MaxCalls
    /\ REQUESTS' = out.requests
    /\ trace' = Append(trace, [client |-> client_id,
                               now    |-> t_now,
                               before |-> REQUESTS,
                               result |-> out.result])
    /\ UNCHANGED <<mwVars, ctlVars, libVars>>

Next == \E c \in Clients, t \in Times : Call(c, t)

Spec == Init /\ [][Next]_vars

(* ---------------------------------------------------------------------- *)
(* MwSpec: requests through rate_limit_middleware (main.py)               *)
(* ---------------------------------------------------------------------- *)

\* variant: every statement boundary is a point where another request runs
Yields_everywhere(p) == TRUE

\* The positions at which a request does not hold the event loop.  The
\* middleware is a coroutine and rate_limiter a plain function: between
\* the start of the middleware and `await call_next(request)` (line 43)
\* there is no await.  Dependencies and handlers declared with `def` run
\* outside the event loop.
Yields(p) == p \in {"idle", "awaiting", "done"}

\* request r may take its next step
CanRun(r) == running \in {0, r}

\* who holds the event loop once r has moved to position p
Sched(r, p) == IF Yields(p) THEN 0 ELSE r

\* main.py:36-39: client_ip = request.client.host; rate_limiter(client_ip) is entered
MwEnter(r) ==
    /\ pc[r] = "idle"
    /\ CanRun(r)
    /\ \E ip \in Clients :
          /\ client' = [client EXCEPT ![r] = ip]
          /\ arg' = [arg EXCEPT ![r] = ip]
    /\ rlCalls' = [rlCalls EXCEPT ![r] = @ + 1]
    /\ pc' = [pc EXCEPT ![r] = "rl_prune"]
    /\ running' = Sched(r, "rl_prune")
    /\ UNCHANGED <<REQUESTS, trace, ctlVars, libVars, now, ret, nextCalled, authRun,
                   handlerRun, storeRun, status>>

\* rate_limit.py:10-15: now = time.time(); the list is pruned
RlPrune(r) ==
    /\ pc[r] = "rl_prune"
    /\ CanRun(r)
    /\ \E t \in Times :
          /\ now' = [now EXCEPT ![r] = t]
          /\ REQUESTS' = Pruned(REQUESTS, arg[r], t)
    /\ pc' = [pc EXCEPT ![r] = "rl_check"]
    /\ running' = Sched(r, "rl_check")
    /\ UNCHANGED <<trace, ctlVars, libVars, client, arg, ret, rlCalls, nextCalled, authRun,
                   handlerRun, storeRun, status>>

\* rate_limit.py:17-18: the limit test; return False when at the limit
RlCheck(r) ==
    /\ pc[r] = "rl_check"
    /\ CanRun(r)
    /\ IF AtLimit(REQUESTS, arg[r])
       THEN /\ ret' = [ret EXCEPT ![r] = "False"]
            /\ now' = [now EXCEPT ![r] = 0]
            /\ pc' = [pc EXCEPT ![r] = "mw_if"]
            /\ running' = Sched(r, "mw_if")
       ELSE /\ pc' = [pc EXCEPT ![r] = "rl_append"]
            /\ running' = Sched(r, "rl_append")
            /\ UNCHANGED <<ret, now>>
    /\ UNCHANGED <<REQUESTS, trace, ctlVars, libVars, client, arg, rlCalls, nextCalled,
                   authRun, handlerRun, storeRun, status>>

\* rate_limit.py:20-21: append now; return True
RlAppend(r) ==
    /\ pc[r] = "rl_append"
    /\ CanRun(r)
    /\ REQUESTS' = Appended(REQUESTS, arg[r], now[r])
    /\ ret' = [ret EXCEPT ![r] = "True"]
    /\ now' = [now EXCEPT ![r] = 0]
    /\ pc' = [pc EXCEPT ![r] = "mw_if"]
    /\ running' = Sched(r, "mw_if")
    /\ UNCHANGED <<trace, ctlVars, libVars, client, arg, rlCalls, nextCalled, authRun,
                   handlerRun, storeRun, status>>

\* variant: the rejection is logged but the request goes on
MwIf_falls_through(r) ==
    /\ pc[r] = "mw_if"
    /\ CanRun(r)
    /\ nextCalled' = [nextCalled EXCEPT ![r] = TRUE]
    /\ pc' = [pc EXCEPT ![r] = "awaiting"]
    /\ running' = Sched(r, "awaiting")
    /\ UNCHANGED <<REQUESTS, trace, ctlVars, libVars, client, now, arg, ret, rlCalls, authRun,
                   handlerRun, storeRun, status>>

\* main.py:39-43: on False raise HTTPException(429, "Too many requests"),
\* otherwise await call_next(request)
MwIf(r) ==
    /\ pc[r] = "mw_if"
    /\ CanRun(r)
    /\ IF ret[r] = "False"
       THEN /\ status' = [status EXCEPT ![r] = 429]
            /\ pc' = [pc EXCEPT ![r] = "done"]
            /\ running' = Sched(r, "done")
            /\ UNCHANGED nextCalled
       ELSE /\ nextCalled' = [nextCalled EXCEPT ![r] = TRUE]
            /\ pc' = [pc EXCEPT ![r] = "awaiting"]
            /\ running' = Sched(r, "awaiting")
            /\ UNCHANGED status
    /\ UNCHANGED <<REQUESTS, trace, ctlVars, libVars, client, now, arg, ret, rlCalls, authRun,
                   handlerRun, storeRun>>

\* main.py:48-59: the request is for "/": health() answers, no API key
Health(r) ==
    /\ pc[r] = "awaiting"
    /\ handlerRun' = [handlerRun EXCEPT ![r] = TRUE]
    /\ status' = [status EXCEPT ![r] = 200]
    /\ pc' = [pc EXCEPT ![r] = "done"]
    /\ UNCHANGED <<REQUESTS, trace, ctlVars, libVars, client, now, arg, ret, running, rlCalls,
                   nextCalled, authRun, storeRun>>

\* variant: a request refused for its API key gives its timestamp back
StopsRoute_refunds_401(r) ==
    /\ pc[r] = "awaiting"
    /\ authRun' = [authRun EXCEPT ![r] = TRUE]
    /\ \E key_matches \in BOOLEAN :
          IF key_matches
          THEN /\ handlerRun' = [handlerRun EXCEPT ![r] = TRUE]
               /\ storeRun' = [storeRun EXCEPT ![r] = TRUE]
               /\ \E st \in {200, 404} : status' = [status EXCEPT ![r] = st]
               /\ UNCHANGED REQUESTS
          ELSE /\ status' = [status EXCEPT ![r] = 401]
               /\ REQUESTS' = Store(REQUESTS, client[r],
                                    SubSeq(Entry(REQUESTS, client[r]), 1,
                                           Len(Entry(REQUESTS, client[r])) - 1))
               /\ UNCHANGED <<handlerRun, storeRun>>
    /\ pc' = [pc EXCEPT ![r] = "done"]
    /\ UNCHANGED <<trace, ctlVars, libVars, client, now, arg, ret, running, rlCalls,
                   nextCalled>>

\* main.py:62-65, auth.py:9-17, routes/bus_stops.py:7-54: the request is
\* for a /stops route.  require_api_key compares the x-api-key header with
\* API_KEY and raises 401 on a mismatch; otherwise the route handler runs
\* its controller, which queries the store and answers or raises 404.
StopsRoute(r) ==
    /\ pc[r] = "awaiting"
    /\ authRun' = [authRun EXCEPT ![r] = TRUE]
    /\ \E key_matches \in BOOLEAN :
          IF key_matches
          THEN /\ handlerRun' = [handlerRun EXCEPT ![r] = TRUE]
               /\ storeRun' = [storeRun EXCEPT ![r] = TRUE]
               /\ \E st \in {200, 404} : status' = [status EXCEPT ![r] = st]
          ELSE /\ status' = [status EXCEPT ![r] = 401]
               /\ UNCHANGED <<handlerRun, storeRun>>
    /\ pc' = [pc EXCEPT ![r] = "done"]
    /\ UNCHANGED <<REQUESTS, trace, ctlVars, libVars, client, now, arg, ret, running, rlCalls,
                   nextCalled>>

\* main.py:43: the response (or the error) leaves the middleware; the
\* slot is free for the next inbound request
Respond(r) ==
    /\ pc[r] = "done"
    /\ pc' = [pc EXCEPT ![r] = "idle"]
    /\ client' = [client EXCEPT ![r] = "a"]
    /\ arg' = [arg EXCEPT ![r] = "none"]
    /\ ret' = [ret EXCEPT ![r] = "none"]
    /\ rlCalls' = [rlCalls EXCEPT ![r] = 0]
    /\ nextCalled' = [nextCalled EXCEPT ![r] = FALSE]
    /\ authRun' = [authRun EXCEPT ![r] = FALSE]
    /\ handlerRun' = [handlerRun EXCEPT ![r] = FALSE]
    /\ storeRun' = [storeRun EXCEPT ![r] = FALSE]
    /\ status' = [status EXCEPT ![r] = 0]
    /\ UNCHANGED <<REQUESTS, trace, ctlVars, libVars, now, running>>

MwNext ==
    \E r \in Reqs :
        \/ MwEnter(r)
        \/ RlPrune(r)
        \/ RlCheck(r)
        \/ RlAppend(r)
        \/ MwIf(r)
        \/ Health(r)
        \/ StopsRoute(r)
        \/ Respond(r)

MwSpec == Init /\ [][MwNext]_vars

(* ---------------------------------------------------------------------- *)
(* Vocabulary of the properties of Spec                                   *)
(* ---------------------------------------------------------------------- *)

Calls == DOMAIN trace

\* the map right after the i-th call
After(i) == IF i = Len(trace) THEN REQUESTS ELSE trace[i + 1].before

\* client i's list just before / just after the i-th call
ListBefore(i) == Entry(trace[i].before, trace[i].client)
ListAfter(i) == Entry(After(i), trace[i].client)

\* number of positions of lst holding t
Occurrences(lst, t) == Cardinality({j \in DOMAIN lst : lst[j] = t})

\* number of entries of lst inside the window that ends at t_now
InWindow(lst, t_now) ==
    Cardinality({j \in DOMAIN lst : lst[j] > t_now - WINDOW_SECONDS})

\* the calls of client c, and the position of call i among them
CallsOf(c) == {i \in Calls : trace[i].client = c}
Rank(i) == Cardinality({j \in CallsOf(trace[i].client) : j <= i})

Ascending(lst) == \A j, k \in DOMAIN lst : j < k => lst[j] <= lst[k]

\* the clock never went backwards over the first i calls
ClockMonotone(i) == \A j, k \in 1..i : j < k => trace[j].now <= trace[k].now

(* ---------------------------------------------------------------------- *)
(* C1 .. C8                                                               *)
(* ---------------------------------------------------------------------- *)

\* C1: a call for client c at time now returns True if and only if fewer
\* than MAX_REQUESTS of c's recorded timestamps are > now - WINDOW_SECONDS
\* at call time; otherwise it returns False.
C1_AdmitIffBelowLimit ==
    \A i \in Calls :
        trace[i].result = (InWindow(ListBefore(i), trace[i].now) < MAX_REQUESTS)

\* a call admitted although the list was full, because an entry had aged
\* out, and a call rejected
C1_Witness ==
    /\ \E i \in Calls :
          /\ trace[i].result
          /\ Len(ListBefore(i)) = MAX_REQUESTS
          /\ InWindow(ListBefore(i), trace[i].now) = MAX_REQUESTS - 1
    /\ \E i \in Calls : ~trace[i].result

\* C2: starting from an empty map, after any sequence of calls the number
\* of timestamps retained for every client is at most MAX_REQUESTS.
C2_RetainedAtMostMax ==
    \A c \in DOMAIN REQUESTS : Len(REQUESTS[c]) <= MAX_REQUESTS

\* a client holds MAX_REQUESTS timestamps and was just refused another
C2_Witness ==
    /\ trace # <<>>
    /\ ~trace[Len(trace)].result
    /\ Len(ListAfter(Len(trace))) = MAX_REQUESTS

\* C3: a call that returns False does not record now: afterwards the list
\* holds exactly the entries that survived pruning, nothing appended.
C3_RejectedLeavesNoTrace ==
    \A i \in Calls :
        ~trace[i].result =>
            /\ ListAfter(i) =
                   SelectSeq(ListBefore(i),
                             LAMBDA t : t > trace[i].now - WINDOW_SECONDS)
            /\ Occurrences(ListAfter(i), trace[i].now) =
                   Occurrences(ListBefore(i), trace[i].now)

\* a call was rejected at an instant that is not among the recorded ones,
\* and a later call of the same client was admitted
C3_Witness ==
    \E i, j \in Calls :
        /\ i < j
        /\ trace[i].client = trace[j].client
        /\ ~trace[i].result
        /\ Occurrences(ListBefore(i), trace[i].now) = 0
        /\ trace[j].result

\* C4: on every call each recorded timestamp t <= now - WINDOW_SECONDS is
\* dropped and each t > now - WINDOW_SECONDS is kept; a timestamp exactly
\* equal to window_start is dropped.
C4_PruneStrict ==
    \A i \in Calls : \A t \in Times :
        IF t <= trace[i].now - WINDOW_SECONDS
        THEN Occurrences(ListAfter(i), t) = 0
        ELSE Occurrences(ListAfter(i), t) =
                 Occurrences(ListBefore(i), t)
                 + (IF trace[i].result /\ t = trace[i].now THEN 1 ELSE 0)

\* one call dropped a timestamp exactly equal to window_start and kept a
\* younger one
C4_Witness ==
    \E i \in Calls :
        /\ Occurrences(ListBefore(i), trace[i].now - WINDOW_SECONDS) > 0
        /\ Occurrences(ListAfter(i), trace[i].now - WINDOW_SECONDS) = 0
        /\ \E t \in Times : t # trace[i].now /\ Occurrences(ListAfter(i), t) > 0

\* C5: window expiry: when every recorded timestamp of the client is
\* outside the window at call time, the call is admitted and the retained
\* list becomes exactly the single timestamp of that call.
C5_WindowExpiry ==
    \A i \in Calls :
        (\A j \in DOMAIN ListBefore(i) :
             ListBefore(i)[j] <= trace[i].now - WINDOW_SECONDS)
        => /\ trace[i].result
           /\ ListAfter(i) = <<trace[i].now>>

\* the scenario of the test: a client fills its window, is rejected, and
\* once all its timestamps have expired is admitted with a one-entry list
C5_Witness ==
    \E i, j \in Calls :
        /\ i < j
        /\ trace[i].client = trace[j].client
        /\ ~trace[i].result
        /\ Len(ListBefore(j)) = MAX_REQUESTS
        /\ \A k \in DOMAIN ListBefore(j) :
               ListBefore(j)[k] <= trace[j].now - WINDOW_SECONDS
        /\ trace[j].result
        /\ ListAfter(j) = <<trace[j].now>>

\* the calls of trace[i].client up to and including call i fall within one
\* window: any two of them are less than WINDOW_SECONDS apart
OneWindow(i) ==
    \A j, k \in CallsOf(trace[i].client) :
        (j <= i /\ k <= i) => trace[j].now - trace[k].now < WINDOW_SECONDS

\* C6: for a previously unseen client, MAX_REQUESTS + 1 sequential calls
\* within one window return True for the first MAX_REQUESTS calls and
\* False for the next, leaving exactly MAX_REQUESTS recorded timestamps.
C6_BurstHitsLimit ==
    \A i \in Calls :
        (Rank(i) <= MAX_REQUESTS + 1 /\ OneWindow(i)) =>
            /\ trace[i].result = (Rank(i) <= MAX_REQUESTS)
            /\ Rank(i) = MAX_REQUESTS + 1 => Len(ListAfter(i)) = MAX_REQUESTS

\* a client made MAX_REQUESTS + 1 calls at one instant; the last is refused
C6_Witness ==
    \E i \in Calls :
        /\ Rank(i) = MAX_REQUESTS + 1
        /\ \A j \in CallsOf(trace[i].client) : trace[j].now = trace[i].now
        /\ ~trace[i].result
        /\ Len(ListAfter(i)) = MAX_REQUESTS

\* the decisions a client gets when it is the only caller: calls at the
\* readings ts, starting from the retained list lst
RECURSIVE SoloDecisions(_, _)
SoloDecisions(ts, lst) ==
    IF ts = <<>> THEN <<>>
    ELSE LET t    == Head(ts)
             kept == SelectSeq(lst, LAMBDA u : u > t - WINDOW_SECONDS)
             ok   == Len(kept) < MAX_REQUESTS
         IN  <<ok>> \o SoloDecisions(Tail(ts), IF ok THEN Append(kept, t) ELSE kept)

\* the calls of client c only, in order
RECURSIVE Project(_, _)
Project(tr, c) ==
    IF tr = <<>> THEN <<>>
    ELSE IF Head(tr).client = c
         THEN <<Head(tr)>> \o Project(Tail(tr), c)
         ELSE Project(Tail(tr), c)

\* C7: a call for client c changes only c's list: every other client's
\* list and the other keys of REQUESTS are unchanged, so the decisions for
\* a client are the same whatever calls the other clients make.
C7_OnlyOwnList ==
    /\ \A i \in Calls : \A d \in Clients \ {trace[i].client} :
          /\ Entry(After(i), d) = Entry(trace[i].before, d)
          /\ (d \in DOMAIN After(i)) = (d \in DOMAIN trace[i].before)
    /\ \A c \in Clients :
          LET own == Project(trace, c) IN
          [k \in DOMAIN own |-> own[k].result] =
              SoloDecisions([k \in DOMAIN own |-> own[k].now], <<>>)

\* two clients interleave: a client that already holds timestamps sees a
\* call of another client admitted, and is itself refused afterwards
C7_Witness ==
    \E j, k \in Calls :
        /\ j < k
        /\ trace[j].client # trace[k].client
        /\ Entry(trace[j].before, trace[k].client) # <<>>
        /\ trace[j].result
        /\ ~trace[k].result

\* C8 as stated: immediately after every call the client's timestamps are
\* in ascending order and none is older than now - WINDOW_SECONDS, for
\* every sequence of clock readings.
C8_Original ==
    \A i \in Calls :
        /\ Ascending(ListAfter(i))
        /\ \A j \in DOMAIN ListAfter(i) :
               ListAfter(i)[j] >= trace[i].now - WINDOW_SECONDS

\* C8 amended: immediately after every call none of the client's
\* timestamps is older than now - WINDOW_SECONDS, for every sequence of
\* clock readings; they are in ascending order when the readings of
\* time.time() so far never went backwards.
C8_ClientWindow ==
    \A i \in Calls :
        /\ \A j \in DOMAIN ListAfter(i) :
               ListAfter(i)[j] >= trace[i].now - WINDOW_SECONDS
        /\ ClockMonotone(i) => Ascending(ListAfter(i))

\* with an advancing clock a call pruned an old entry and left a list of
\* several distinct timestamps
C8_Witness ==
    \E i \in Calls :
        /\ ClockMonotone(i)
        /\ Len(ListAfter(i)) >= 2
        /\ ListAfter(i)[1] < ListAfter(i)[2]
        /\ Len(ListBefore(i)) >= 1
        /\ ListBefore(i)[1] <= trace[i].now - WINDOW_SECONDS

(* ---------------------------------------------------------------------- *)
(* C9, C10 (MwSpec)                                                       *)
(* ---------------------------------------------------------------------- *)

\* request r is between the entry of rate_limiter and the middleware's test
InLimiter(r) == pc[r] \in {"rl_prune", "rl_check", "rl_append", "mw_if"}

\* requests that observed "below limit" for c and have not appended yet
Pending(c) == {r \in Reqs : pc[r] = "rl_append" /\ arg[r] = c}

\* C9: under concurrent requests the read-prune-compare-append sequence
\* behaves as a critical section: no two requests are inside it at once,
\* the callers that observed "below limit" never outnumber the free slots,
\* and the retained count never exceeds MAX_REQUESTS.
C9_CriticalSection ==
    /\ \A r1, r2 \in Reqs : (InLimiter(r1) /\ InLimiter(r2)) => r1 = r2
    /\ \A c \in Clients :
          Len(Entry(REQUESTS, c)) + Cardinality(Pending(c)) <= MAX_REQUESTS

\* requests of one client overlap: while admitted ones are still being
\* served and the client's window is full, another one is refused
C9_Witness ==
    \E r1, r2 \in Reqs :
        /\ r1 # r2
        /\ client[r1] = client[r2]
        /\ pc[r1] = "awaiting"
        /\ pc[r2] = "mw_if"
        /\ ret[r2] = "False"
        /\ Len(Entry(REQUESTS, client[r2])) = MAX_REQUESTS

\* C10: for every request the middleware calls rate_limiter exactly once,
\* with the client's address, before any handler runs; when it returns
\* False the request is rejected with 429 without calling call_next, so no
\* handler, API-key check or store query is executed for it.
C10_AdmissionFirst ==
    \A r \in Reqs :
        /\ rlCalls[r] = (IF pc[r] = "idle" THEN 0 ELSE 1)
        /\ rlCalls[r] = 1 => arg[r] = client[r]
        /\ (nextCalled[r] \/ authRun[r] \/ handlerRun[r] \/ storeRun[r])
               => (rlCalls[r] = 1 /\ ret[r] = "True")
        /\ ret[r] = "False" =>
               /\ ~nextCalled[r] /\ ~authRun[r]
               /\ ~handlerRun[r] /\ ~storeRun[r]
               /\ status[r] \in {0, 429}
        /\ (ret[r] = "False" /\ pc[r] = "done") => status[r] = 429
        /\ status[r] = 429 => ret[r] = "False"

\* one request was answered 429 and another was served by a handler
C10_Witness ==
    \E r1, r2 \in Reqs :
        /\ pc[r1] = "done" /\ status[r1] = 429 /\ rlCalls[r1] = 1
        /\ pc[r2] = "done" /\ handlerRun[r2] /\ storeRun[r2]

(* ---------------------------------------------------------------------- *)
(* CtrlSpec: the dataset and the values the controllers are called with   *)
(* ---------------------------------------------------------------------- *)

\* largest number of rows of the dataset
MaxStops == 2

\* stop codes found in the dataset, and one more that a caller may ask for
Codes == {1, 2}
AskedCodes == Codes \cup {3}

\* stop names, as sequences of characters
Names == { <<"A", "b">>, <<"b", "a", "b">> }

\* latitudes and longitudes, in steps of 0.001 degree from (0, 0)
Coords == {0, 1}

\* where the stops of the dataset lie: mutual distances 111 m and 157 m
Positions == { <<0, 0>>, <<1, 0>>, <<1, 1>> }

\* the values of radius_m, limit and offset a caller passes
Radii == {-1, 0, 111, 157}
Limits == {1, 2}
Offsets == {0, 1}

\* the values of stop_name / name a caller passes
Patterns == { <<>>, <<"a">>, <<"b", "A">>, <<"c">>, <<"a", "_">> }

\* name: str | None
Some(v) == [some |-> TRUE, val |-> v]
None == [some |-> FALSE, val |-> <<>>]
OptNames == {None} \cup {Some(v) : v \in Patterns}

\* one row of stops.parquet (parent_station, x_meters and y_meters are
\* carried through unchanged and left out)
StopRows ==
    {[stop_code |-> c, stop_name |-> n, latitude |-> p[1], longitude |-> p[2]] :
        c \in Codes, n \in Names, p \in Positions}

Datasets == UNION {[1..n -> StopRows] : n \in 0..MaxStops}

\* the ways query_stops fails (parquet.py:19-20 and the DuckDB errors of
\* parquet.py:23-32)
StoreFaults == {"FileNotFoundError", "duckdb.Error"}

(* ---------------------------------------------------------------------- *)
(* What DuckDB computes for the SQL the controllers send                  *)
(* ---------------------------------------------------------------------- *)

Min(a, b) == IF a <= b THEN a ELSE b
Abs(a) == IF a < 0 THEN -a ELSE a

\* str.upper() and SQL UPPER(), one character
UpperChar(c) == CASE c = "a" -> "A" [] c = "b" -> "B" [] c = "c" -> "C" [] OTHER -> c

\* str.upper() and SQL UPPER()
Upper(str) == [i \in DOMAIN str |-> UpperChar(str[i])]

\* SQL LIKE: % matches any run of characters, _ any one character
RECURSIVE Like(_, _)
Like(str, pat) ==
    IF pat = <<>> THEN str = <<>>
    ELSE IF Head(pat) = "%"
         THEN Like(str, Tail(pat)) \/ (str # <<>> /\ Like(Tail(str), pat))
    ELSE IF Head(pat) = "_"
         THEN str # <<>> /\ Like(Tail(str), Tail(pat))
    ELSE str # <<>> /\ Head(str) = Head(pat) /\ Like(Tail(str), Tail(pat))

\* SQL ILIKE: LIKE without regard to letter case
ILike(str, pat) == Like(Upper(str), Upper(pat))

\* the haversine distance of bus_stop_controller.py:98-104 / 140-146, in
\* whole metres, between points dlat and dlon steps of 0.001 degree apart
\* near (0, 0): one step is 111.19 m, the diagonal 157.25 m
HaversineSteps(dlat, dlon) ==
    IF dlat = 0 /\ dlon = 0 THEN 0
    ELSE IF dlat + dlon = 1 THEN 111
    ELSE 157

\* the distance_m column: the first ? is subtracted from s.latitude, the
\* second is the argument of COS(RADIANS(?)), the third is subtracted from
\* s.longitude (at this scale the cosine factor changes nothing)
distance_m(row, p_lat, p_coslat, p_lon) ==
    HaversineSteps(Abs(row.latitude - p_lat), Abs(row.longitude - p_lon))

\* the permutations of 1..n
Perms(n) == {f \in [1..n -> 1..n] : \A i, j \in 1..n : i # j => f[i] # f[j]}

\* ORDER BY key: every arrangement of rows with non-decreasing key (the
\* order among equal keys is not defined by SQL)
OrderBy(rows, key) ==
    {ordered \in {[i \in DOMAIN rows |-> rows[f[i]]] : f \in Perms(Len(rows))} :
        \A i, j \in DOMAIN ordered : i < j => ordered[i][key] <= ordered[j][key]}

\* variant: the LIMIT is not applied
LimitOffset_unlimited(rows, lim, off) == SubSeq(rows, off + 1, Len(rows))

\* LIMIT lim OFFSET off
LimitOffset(rows, lim, off) == SubSeq(rows, off + 1, Min(off + lim, Len(rows)))

\* the columns of the listing: stop_code, UPPER(stop_name), latitude, longitude
ListColumns(row) ==
    [stop_code |-> row.stop_code, stop_name |-> Upper(row.stop_name),
     latitude |-> row.latitude, longitude |-> row.longitude]

\* the columns of the reference query: latitude AS stop_lat, longitude AS stop_lon
RefColumns(row) ==
    [stop_code |-> row.stop_code, stop_name |-> Upper(row.stop_name),
     stop_lat |-> row.latitude, stop_lon |-> row.longitude]

\* the columns of the nearby queries, distance_m included
NearbyColumns(row, params) ==
    [stop_code |-> row.stop_code, stop_name |-> Upper(row.stop_name),
     latitude |-> row.latitude, longitude |-> row.longitude,
     distance_m |-> distance_m(row, params[1], params[2], params[3])]

\* bus_stop_controller.py:13-30: SELECT ... FROM stops [WHERE stop_name
\* ILIKE ?] ORDER BY stop_code LIMIT ? OFFSET ?  -- the ? bound in order
ExecList(S, q) ==
    LET n       == Len(q.params)
        matched == IF q.where
                   THEN SelectSeq(S, LAMBDA row : ILike(row.stop_name, q.params[1]))
                   ELSE S
    IN  {LimitOffset(o, q.params[n - 1], q.params[n]) :
            o \in OrderBy([i \in DOMAIN matched |-> ListColumns(matched[i])], "stop_code")}

\* bus_stop_controller.py:41-52: SELECT ... FROM stops WHERE stop_code = ?
ExecByCode(S, q) ==
    LET matched == SelectSeq(S, LAMBDA row : row.stop_code = q.params[1])
    IN  {[i \in DOMAIN matched |-> ListColumns(matched[i])]}

\* variant: no ORDER BY stop_code, the first match in file order
ExecRef_unordered(S, q) ==
    LET matched == SelectSeq(S, LAMBDA row : ILike(Upper(row.stop_name), q.params[1]))
    IN  {LimitOffset([i \in DOMAIN matched |-> RefColumns(matched[i])], 1, 0)}

\* bus_stop_controller.py:70-80: SELECT ... FROM stops WHERE
\* UPPER(stop_name) ILIKE ? ORDER BY stop_code LIMIT 1
ExecRef(S, q) ==
    LET matched == SelectSeq(S, LAMBDA row : ILike(Upper(row.stop_name), q.params[1]))
    IN  {LimitOffset(o, 1, 0) :
            o \in OrderBy([i \in DOMAIN matched |-> RefColumns(matched[i])], "stop_code")}

\* variant: ORDER BY distance_m DESC
ExecNearby_descending(S, q) ==
    LET rows == [i \in DOMAIN S |-> NearbyColumns(S[i], q.params)]
    IN  {LimitOffset([i \in DOMAIN o |-> o[Len(o) + 1 - i]], q.params[4], 0) :
            o \in OrderBy(rows, "distance_m")}

\* variant: no ORDER BY distance_m, the rows are cut in file order
ExecNearby_unordered(S, q) ==
    {LimitOffset([i \in DOMAIN S |-> NearbyColumns(S[i], q.params)], q.params[4], 0)}

\* bus_stop_controller.py:91-108 / 133-150: SELECT ..., <haversine> AS
\* distance_m FROM stops AS s ORDER BY distance_m LIMIT ?
ExecNearby(S, q) ==
    LET rows == [i \in DOMAIN S |-> NearbyColumns(S[i], q.params)]
    IN  {LimitOffset(o, q.params[4], 0) : o \in OrderBy(rows, "distance_m")}

\* the answers DuckDB may give to query q over the dataset S
Execute(S, q) ==
    CASE q.sql = "list"    -> ExecList(S, q)
      [] q.sql = "by_code" -> ExecByCode(S, q)
      [] q.sql = "ref"     -> ExecRef(S, q)
      [] q.sql = "nearby"  -> ExecNearby(S, q)

\* parquet.py:8-38 query_stops(sql, params): the rows, or a failure
query_stops(S, q) ==
    {[fault |-> "ok", rows |-> a] : a \in Execute(S, q)}
    \cup {[fault |-> f, rows |-> <<>>] : f \in StoreFaults}

(* ---------------------------------------------------------------------- *)
(* controllers/bus_stop_controller.py                                     *)
(* ---------------------------------------------------------------------- *)

Wild(str) == <<"%">> \o str \o <<"%">>

\* one query_stops call: the query sent and what came back
Sent(q, r) == [q |-> q, r |-> r]

\* variant: the nearby query is sent although no reference was resolved
EndsAfterReference_queries_on(ref_q, ref_results) ==
    <<Sent(ref_q, ref_results),
      Sent([sql |-> "nearby", where |-> FALSE, params |-> <<0, 0, 0, 1>>],
           [fault |-> "ok", rows |-> <<>>])>>

\* lines 81-83: the raise of query_stops, or of the 404, ends the call
\* with the reference query as its only query
EndsAfterReference(ref_q, ref_results) == <<Sent(ref_q, ref_results)>>

\* return {...}
Returned(ref, results) ==
    [NoOutcome EXCEPT !.kind = "return", !.status = 200, !.ref = ref,
                      !.count = Len(results), !.results = results]

\* raise HTTPException(status_code=404, detail=f"<text> {arg} ...")
NotFound(text, a) ==
    [NoOutcome EXCEPT !.kind = "raise", !.status = 404,
                      !.exc = "HTTPException", !.detail = <<text, a>>]

\* variant: a failure of the store is turned into an HTTP 500
Propagated_as_500(r) ==
    [NoOutcome EXCEPT !.kind = "raise", !.status = 500, !.exc = "HTTPException"]

\* lines 33, 53, 81, 110, 152: query_stops is called outside any try, so
\* what it raises leaves the controller as it is
Propagated(r) == [NoOutcome EXCEPT !.kind = "raise", !.exc = r.fault]

\* variant: OFFSET is bound before LIMIT
ListQuery_swapped(limit, offset, name) ==
    LET filtered == name.some /\ name.val # <<>> IN
    [sql |-> "list", where |-> filtered,
     params |-> (IF filtered THEN <<Wild(name.val)>> ELSE <<>>) \o <<offset, limit>>]

\* lines 13-31: the SQL and the parameters of list_stops
ListQuery(limit, offset, name) ==
    LET filtered == name.some /\ name.val # <<>> IN
    [sql |-> "list", where |-> filtered,
     params |-> (IF filtered THEN <<Wild(name.val)>> ELSE <<>>) \o <<limit, offset>>]

\* lines 33-34
ListResult(r) ==
    IF r.fault # "ok" THEN Propagated(r) ELSE Returned(<<>>, r.rows)

\* lines 41-53
ByCodeQuery(stop_code) == [sql |-> "by_code", where |-> TRUE, params |-> <<stop_code>>]

\* variant: an empty answer is returned as a success
ByCodeResult_empty_ok(stop_code, r) ==
    IF r.fault # "ok" THEN Propagated(r) ELSE Returned(<<>>, r.rows)

\* lines 53-57
ByCodeResult(stop_code, r) ==
    IF r.fault # "ok" THEN Propagated(r)
    ELSE IF r.rows # <<>> THEN Returned(<<>>, r.rows)
    ELSE NotFound("Stop Code not found", stop_code)

\* lines 70-81
RefQuery(stop_name) ==
    [sql |-> "ref", where |-> TRUE, params |-> <<Wild(Upper(stop_name))>>]

\* variant: the message carries the upper-cased pattern
RefNotFound_upper(stop_name) ==
    NotFound("No stop found with name like", Upper(stop_name))

\* lines 82-83
RefNotFound(stop_name) == NotFound("No stop found with name like", stop_name)

\* lines 109 and 151: params = (lat, lat, lon, limit)
NearbyQuery(lat, lon, limit) ==
    [sql |-> "nearby", where |-> FALSE, params |-> <<lat, lat, lon, limit>>]

\* variant: distance_m < radius_m
RadiusFilter_exclusive(nearby, radius_m) ==
    SelectSeq(nearby, LAMBDA st : st.distance_m < radius_m)

\* lines 113 and 154: [st for st in nearby if st["distance_m"] <= radius_m]
RadiusFilter(nearby, radius_m) ==
    SelectSeq(nearby, LAMBDA st : st.distance_m <= radius_m)

\* variant: an empty result is reported as not found
NearbyResult_404_when_empty(ref, radius_m, r) ==
    IF r.fault # "ok" THEN Propagated(r)
    ELSE IF RadiusFilter(r.rows, radius_m) = <<>>
         THEN NotFound("No stops nearby", <<>>)
         ELSE Returned(ref, RadiusFilter(r.rows, radius_m))

\* lines 110-120 and 152-161
NearbyResult(ref, radius_m, r) ==
    IF r.fault # "ok" THEN Propagated(r)
    ELSE Returned(ref, RadiusFilter(r.rows, radius_m))

(* ---------------------------------------------------------------------- *)
(* CtrlSpec: one controller call                                          *)
(* ---------------------------------------------------------------------- *)

CtrlInit ==
    /\ RlInit
    /\ LibInit
    /\ stops \in Datasets
    /\ ctlCall = NoCall
    /\ queries = <<>>
    /\ outcome = NoOutcome

rlVars == <<REQUESTS, trace, mwVars>>

\* lines 4-34
ListStops ==
    /\ ctlCall.op = "none"
    /\ \E limit \in Limits, offset \in Offsets, name \in OptNames :
          LET q == ListQuery(limit, offset, name) IN
          \E r \in query_stops(stops, q) :
              /\ ctlCall' = [NoCall EXCEPT !.op = "list_stops", !.limit = limit,
                                           !.offset = offset, !.name = name]
              /\ queries' = <<Sent(q, r)>>
              /\ outcome' = ListResult(r)
    /\ UNCHANGED <<stops, rlVars, libVars>>

\* lines 37-57
GetStopByCode ==
    /\ ctlCall.op = "none"
    /\ \E stop_code \in AskedCodes :
          LET q == ByCodeQuery(stop_code) IN
          \E r \in query_stops(stops, q) :
              /\ ctlCall' = [NoCall EXCEPT !.op = "get_stop_by_code",
                                           !.stop_code = stop_code]
              /\ queries' = <<Sent(q, r)>>
              /\ outcome' = ByCodeResult(stop_code, r)
    /\ UNCHANGED <<stops, rlVars, libVars>>

\* lines 60-120
GetNearbyByName ==
    /\ ctlCall.op = "none"
    /\ \E stop_name \in Patterns, radius_m \in Radii, limit \in Limits :
          LET ref_q == RefQuery(stop_name) IN
          \E ref_results \in query_stops(stops, ref_q) :
              /\ ctlCall' = [NoCall EXCEPT !.op = "get_nearby_by_name",
                                           !.stop_name = stop_name,
                                           !.radius_m = radius_m, !.limit = limit]
              /\ IF ref_results.fault # "ok"
                 THEN /\ queries' = EndsAfterReference(ref_q, ref_results)
                      /\ outcome' = Propagated(ref_results)
                 ELSE IF ref_results.rows = <<>>
                 THEN /\ queries' = EndsAfterReference(ref_q, ref_results)
                      /\ outcome' = RefNotFound(stop_name)
                 ELSE LET ref == ref_results.rows[1]
                          q   == NearbyQuery(ref.stop_lat, ref.stop_lon, limit)
                      IN  \E r \in query_stops(stops, q) :
                              /\ queries' = <<Sent(ref_q, ref_results), Sent(q, r)>>
                              /\ outcome' = NearbyResult(<<ref>>, radius_m, r)
    /\ UNCHANGED <<stops, rlVars, libVars>>

\* lines 123-161
GetNearbyByCoords ==
    /\ ctlCall.op = "none"
    /\ \E lat \in Coords, lon \in Coords, radius_m \in Radii, limit \in Limits :
          LET q == NearbyQuery(lat, lon, limit) IN
          \E r \in query_stops(stops, q) :
              /\ ctlCall' = [NoCall EXCEPT !.op = "get_nearby_by_coords",
                                           !.lat = lat, !.lon = lon,
                                           !.radius_m = radius_m, !.limit = limit]
              /\ queries' = <<Sent(q, r)>>
              /\ outcome' = NearbyResult(<<>>, radius_m, r)
    /\ UNCHANGED <<stops, rlVars, libVars>>

CtrlNext ==
    \/ ListStops
    \/ GetStopByCode
    \/ GetNearbyByName
    \/ GetNearbyByCoords

CtrlSpec == CtrlInit /\ [][CtrlNext]_vars

(* ---------------------------------------------------------------------- *)
(* Vocabulary of the properties of CtrlSpec                               *)
(* ---------------------------------------------------------------------- *)

\* the last query_stops call of the controller call
LastSent == queries[Len(queries)]

\* a nearby call that got its rows from the store and returned
NearbyReturned ==
    /\ ctlCall.op \in {"get_nearby_by_name", "get_nearby_by_coords"}
    /\ outcome.kind = "return"

\* the point the nearby query measures from, as bound in its parameters
MeasuredFrom == [lat |-> LastSent.q.params[1], lon |-> LastSent.q.params[3]]

\* the positions of the dataset rows within radius of the point pt
InRadius(S, pt, radius) ==
    {i \in DOMAIN S :
        HaversineSteps(Abs(S[i].latitude - pt.lat), Abs(S[i].longitude - pt.lon))
            <= radius}

\* pat occurs in str as a contiguous substring, letter case ignored
ContainsIgnoreCase(str, pat) ==
    \E k \in 0..(Len(str) - Len(pat)) :
        \A j \in 1..Len(pat) : UpperChar(str[k + j]) = UpperChar(pat[j])

(* ---------------------------------------------------------------------- *)
(* C11 .. C20 (CtrlSpec)                                                  *)
(* ---------------------------------------------------------------------- *)

\* C11: the results of a nearby call are exactly the rows of the store's
\* answer with distance_m <= radius_m, in the store's order; with radius 0
\* only rows at distance 0 survive, with a negative radius none.
C11_RadiusFilterInclusive ==
    NearbyReturned =>
        /\ outcome.results =
               SelectSeq(LastSent.r.rows,
                         LAMBDA st : st.distance_m <= ctlCall.radius_m)
        /\ ctlCall.radius_m = 0 =>
               \A k \in DOMAIN outcome.results : outcome.results[k].distance_m = 0
        /\ ctlCall.radius_m < 0 => outcome.results = <<>>

\* the store answered two rows, one exactly at radius_m, which is kept
C11_Witness ==
    /\ NearbyReturned
    /\ Len(LastSent.r.rows) = 2
    /\ ctlCall.radius_m > 0
    /\ \E k \in DOMAIN outcome.results :
           outcome.results[k].distance_m = ctlCall.radius_m

\* C12 as stated: among the datasets the program can be started on there
\* are a dataset, a point, a radius and a limit for which the result is
\* smaller than limit although in-radius rows exist that the result does
\* not hold (an under-return).
C12_Original ==
    /\ stops \in Datasets
    /\ \E S \in Datasets, lat \in Coords, lon \in Coords,
          radius_m \in Radii, limit \in Limits :
           \E r \in query_stops(S, NearbyQuery(lat, lon, limit)) :
               /\ r.fault = "ok"
               /\ Len(RadiusFilter(r.rows, radius_m)) < limit
               /\ Cardinality(InRadius(S, [lat |-> lat, lon |-> lon], radius_m))
                      > Len(RadiusFilter(r.rows, radius_m))

\* C12 amended: the radius filter runs after the store cut the
\* distance-ascending rows to limit, and the result can be smaller than
\* limit, but only when the whole dataset has fewer than limit in-radius
\* rows: the result always holds min(limit, number of in-radius rows) rows.
C12_NoUnderReturn ==
    NearbyReturned =>
        Len(outcome.results) =
            Min(ctlCall.limit,
                Cardinality(InRadius(stops, MeasuredFrom, ctlCall.radius_m)))

\* the store cut the rows to limit, the filter dropped one of them, and
\* the result is smaller than limit
C12_Witness ==
    /\ NearbyReturned
    /\ Len(stops) > ctlCall.limit
    /\ Len(LastSent.r.rows) = ctlCall.limit
    /\ Len(outcome.results) < ctlCall.limit

\* C13: the results of a nearby call are ordered by non-decreasing
\* distance_m and contain at most limit rows.
C13_AscendingAtMostLimit ==
    NearbyReturned =>
        /\ Len(outcome.results) <= ctlCall.limit
        /\ \A j, k \in DOMAIN outcome.results :
               j < k => outcome.results[j].distance_m <= outcome.results[k].distance_m

\* the dataset holds more rows than limit and the farther one comes first
\* in the file; or two rows at different distances are returned in order
C13_Witness ==
    /\ NearbyReturned
    /\ Len(stops) = 2
    /\ HaversineSteps(Abs(stops[1].latitude - MeasuredFrom.lat),
                      Abs(stops[1].longitude - MeasuredFrom.lon))
         > HaversineSteps(Abs(stops[2].latitude - MeasuredFrom.lat),
                          Abs(stops[2].longitude - MeasuredFrom.lon))
    /\ Len(outcome.results) = ctlCall.limit

\* C14: get_nearby_by_name with a pattern for which the reference query
\* returns no row raises HTTP 404 whose message carries the pattern exactly
\* as the caller supplied it, and returns no result.
C14_NotFoundCarriesPattern ==
    (/\ ctlCall.op = "get_nearby_by_name"
     /\ queries[1].r.fault = "ok"
     /\ queries[1].r.rows = <<>>)
    => /\ outcome.kind = "raise"
       /\ outcome.exc = "HTTPException"
       /\ outcome.status = 404
       /\ outcome.detail = <<"No stop found with name like", ctlCall.stop_name>>
       /\ outcome.results = <<>>
       /\ Len(queries) = 1

\* a pattern in lower case matches nothing in a non-empty dataset
C14_Witness ==
    /\ ctlCall.op = "get_nearby_by_name"
    /\ stops # <<>>
    /\ ctlCall.stop_name # Upper(ctlCall.stop_name)
    /\ queries[1].r.fault = "ok"
    /\ outcome.status = 404

\* C15: every failure raised by query_stops leaves list_stops,
\* get_stop_by_code, get_nearby_by_coords and get_nearby_by_name (reference
\* or nearby query) as the very same exception; none is swallowed,
\* converted or retried.
C15_StoreFailuresPropagate ==
    \A k \in DOMAIN queries :
        queries[k].r.fault # "ok" =>
            /\ outcome.kind = "raise"
            /\ outcome.exc = queries[k].r.fault
            /\ outcome.status = 0
            /\ k = Len(queries)

\* the nearby query of get_nearby_by_name fails after the reference was
\* resolved
C15_Witness ==
    /\ ctlCall.op = "get_nearby_by_name"
    /\ Len(queries) = 2
    /\ queries[2].r.fault = "duckdb.Error"
    /\ outcome.exc = "duckdb.Error"

\* C16: get_nearby_by_coords never fails with a not-found condition: when
\* the store returns no row, or every row is outside the radius, it
\* returns a success with count 0 and an empty results list.
C16_CoordsNeverNotFound ==
    ctlCall.op = "get_nearby_by_coords" =>
        /\ outcome.status # 404
        /\ outcome.exc # "HTTPException"
        /\ (/\ LastSent.r.fault = "ok"
            /\ \A k \in DOMAIN LastSent.r.rows :
                   LastSent.r.rows[k].distance_m > ctlCall.radius_m)
           => /\ outcome.kind = "return"
              /\ outcome.count = 0
              /\ outcome.results = <<>>

\* the store answered rows and all of them are outside the radius
C16_Witness ==
    /\ ctlCall.op = "get_nearby_by_coords"
    /\ LastSent.r.fault = "ok"
    /\ LastSent.r.rows # <<>>
    /\ outcome.kind = "return"
    /\ outcome.count = 0

\* C17: get_stop_by_code returns a success (all matching rows, count =
\* number of rows) if and only if the store returns at least one row; with
\* zero rows it raises HTTP 404 'Stop Code <code> not found'.
C17_ByCodeNotFound ==
    (ctlCall.op = "get_stop_by_code" /\ LastSent.r.fault = "ok") =>
        /\ (outcome.kind = "return") = (LastSent.r.rows # <<>>)
        /\ outcome.kind = "return" =>
               /\ outcome.results = LastSent.r.rows
               /\ outcome.count = Len(LastSent.r.rows)
               /\ outcome.count =
                      Cardinality({i \in DOMAIN stops :
                                      stops[i].stop_code = ctlCall.stop_code})
        /\ LastSent.r.rows = <<>> =>
               /\ outcome.kind = "raise"
               /\ outcome.exc = "HTTPException"
               /\ outcome.status = 404
               /\ outcome.detail = <<"Stop Code not found", ctlCall.stop_code>>

\* a code that no row of a non-empty dataset carries
C17_Witness ==
    /\ ctlCall.op = "get_stop_by_code"
    /\ stops # <<>>
    /\ LastSent.r.fault = "ok"
    /\ outcome.status = 404

\* the dataset rows the reference query of the call matches
RefMatches ==
    {i \in DOMAIN stops :
        ILike(Upper(stops[i].stop_name), Wild(Upper(ctlCall.stop_name)))}

\* C18: in get_nearby_by_name the reference point is the first row the
\* reference query matches, in ascending stop-code order; its latitude and
\* longitude are bound to the nearby query as (ref_lat, ref_lat, ref_lon,
\* limit), the distances are measured from it, and that row is returned as
\* reference_stop.
C18_ReferenceIsFirstMatch ==
    (ctlCall.op = "get_nearby_by_name" /\ Len(queries) = 2) =>
        LET ref == queries[1].r.rows[1] IN
        /\ Len(queries[1].r.rows) = 1
        /\ \E i \in RefMatches :
               /\ ref = RefColumns(stops[i])
               /\ \A j \in RefMatches : stops[i].stop_code <= stops[j].stop_code
        /\ queries[2].q.params = <<ref.stop_lat, ref.stop_lat, ref.stop_lon, ctlCall.limit>>
        /\ outcome.kind = "return" =>
               /\ outcome.ref = <<ref>>
               /\ \A k \in DOMAIN outcome.results :
                      outcome.results[k].distance_m =
                          HaversineSteps(
                              Abs(outcome.results[k].latitude - ref.stop_lat),
                              Abs(outcome.results[k].longitude - ref.stop_lon))

\* two rows match, the one with the larger code comes first in the file
\* and lies elsewhere; the call returns
C18_Witness ==
    /\ ctlCall.op = "get_nearby_by_name"
    /\ outcome.kind = "return"
    /\ RefMatches = {1, 2}
    /\ stops[1].stop_code > stops[2].stop_code
    /\ stops[1].latitude # stops[2].latitude
    /\ stops[1].longitude # stops[2].longitude
    /\ outcome.ref[1].stop_code = stops[2].stop_code

\* C19: the name resolution of get_nearby_by_name matches a stored name if
\* and only if the pattern, ignoring letter case, occurs in it as a
\* contiguous substring, for every pattern string.
C19_SubstringMatch ==
    (ctlCall.op = "get_nearby_by_name" /\ queries[1].r.fault = "ok") =>
        /\ (queries[1].r.rows # <<>>) =
               (\E i \in DOMAIN stops :
                    ContainsIgnoreCase(stops[i].stop_name, ctlCall.stop_name))
        /\ \A k \in DOMAIN queries[1].r.rows :
               ContainsIgnoreCase(queries[1].r.rows[k].stop_name, ctlCall.stop_name)

\* the position the k-th row of the listing must have among the rows the
\* filter lets through, ordered by stop code
ListMatched ==
    {i \in DOMAIN stops :
        (ctlCall.name.some /\ ctlCall.name.val # <<>>)
            => ILike(stops[i].stop_name, Wild(ctlCall.name.val))}

\* C20: list_stops orders by stop code and binds limit then offset as the
\* last two parameters (skip offset ordered rows, return up to limit); the
\* name filter is applied if and only if name is a non-empty string, with
\* %name% bound first; count is the number of rows returned.
C20_ListPagination ==
    ctlCall.op = "list_stops" =>
        LET q        == queries[1].q
            filtered == ctlCall.name.some /\ ctlCall.name.val # <<>>
            n        == Len(q.params)
        IN
        /\ q.where = filtered
        /\ n = (IF filtered THEN 3 ELSE 2)
        /\ filtered => q.params[1] = <<"%">> \o ctlCall.name.val \o <<"%">>
        /\ q.params[n - 1] = ctlCall.limit
        /\ q.params[n] = ctlCall.offset
        /\ outcome.kind = "return" =>
               LET res == outcome.results IN
               /\ outcome.count = Len(res)
               /\ Len(res) =
                      Min(ctlCall.limit,
                          IF Cardinality(ListMatched) > ctlCall.offset
                          THEN Cardinality(ListMatched) - ctlCall.offset ELSE 0)
               /\ \A j, k \in DOMAIN res : j < k => res[j].stop_code <= res[k].stop_code
               /\ \A k \in DOMAIN res :
                      /\ Cardinality({i \in ListMatched :
                             stops[i].stop_code < res[k].stop_code})
                           <= ctlCall.offset + k - 1
                      /\ Cardinality({i \in ListMatched :
                             stops[i].stop_code <= res[k].stop_code})
                           >= ctlCall.offset + k

\* a filtered listing skips the row with the smaller code, which comes
\* second in the file, and returns the other
C20_Witness ==
    /\ ctlCall.op = "list_stops"
    /\ ctlCall.name.some /\ ctlCall.name.val # <<>>
    /\ ctlCall.offset = 1
    /\ Len(stops) = 2
    /\ stops[1].stop_code > stops[2].stop_code
    /\ outcome.kind = "return"
    /\ outcome.count = 1
    /\ outcome.results[1].stop_code = stops[1].stop_code

(* ---------------------------------------------------------------------- *)
(* utils/auth.py                                                          *)
(* ---------------------------------------------------------------------- *)

\* longest sequence of require_api_key calls explored by AuthSpec
MaxAuthCalls == 3

\* what the environment holds under API_KEY when auth.py is imported
EnvValues == {Unset, Env(""), Env("key-1"), Env("key-2")}

\* values of the x-api-key header (Header(...) hands the function a str)
HeaderValues == {"", "key-1", "key-2"}

\* auth.py:14-17
Unauthorized ==
    [raised |-> TRUE, status_code |-> 401, detail |-> "Invalid or missing API Key."]

\* the function returns None
Passed == [raised |-> FALSE, status_code |-> 0, detail |-> ""]

\* auth.py:13: x_api_key != API_KEY, where a str never equals None
Differs(x_api_key, key) == ~key.set \/ x_api_key # key.val

\* auth.py:9-17
require_api_key(x_api_key, key) ==
    IF Differs(x_api_key, key) THEN Unauthorized ELSE Passed

(* ---------------------------------------------------------------------- *)
(* AuthSpec: require_api_key called with any header, any configured key   *)
(* ---------------------------------------------------------------------- *)

\* no dataset, no controller call
NoCtl ==
    /\ stops = <<>>
    /\ ctlCall = NoCall
    /\ queries = <<>>
    /\ outcome = NoOutcome

AuthInit ==
    /\ RlInit
    /\ NoCtl
    /\ NoHav
    /\ NoStore
    /\ API_KEY \in EnvValues
    /\ authTrace = <<>>

\* one call require_api_key(x_api_key)
CheckKey(x_api_key) ==
    /\ Len(authTrace) < MaxAuthCalls
    /\ authTrace' = Append(authTrace, [x_api_key |-> x_api_key,
                                       out |-> require_api_key(x_api_key, API_KEY)])
    /\ UNCHANGED <<API_KEY, rlVars, ctlVars, havVars, storeVars>>

AuthNext == \E h \in HeaderValues : CheckKey(h)

AuthSpec == AuthInit /\ [][AuthNext]_vars

(* ---------------------------------------------------------------------- *)
(* C21 (AuthSpec)                                                         *)
(* ---------------------------------------------------------------------- *)

\* C21: require_api_key accepts a call only when the header equals the
\* configured API_KEY; a mismatching or empty header is rejected with
\* 401 'Invalid or missing API Key.'; and when the configured key is
\* empty or unset every header value is rejected with 401.
C21_RequireApiKey ==
    \A k \in DOMAIN authTrace :
        LET call == authTrace[k] IN
        /\ ~call.out.raised => (API_KEY.set /\ call.x_api_key = API_KEY.val)
        /\ (~API_KEY.set \/ call.x_api_key # API_KEY.val \/ call.x_api_key = "")
               => call.out = [raised |-> TRUE, status_code |-> 401,
                              detail |-> "Invalid or missing API Key."]
        /\ (~API_KEY.set \/ API_KEY.val = "")
               => (call.out.raised /\ call.out.status_code = 401)

(* ---------------------------------------------------------------------- *)
(* The distance expression of the nearby queries                          *)
(* (bus_stop_controller.py:97-103, 139-145), evaluated in fixed point     *)
(* ---------------------------------------------------------------------- *)

\* one unit of a fixed-point number is 10^-8; a wide number <<hi, lo>>
\* stands for hi * 10^8 + lo units of 10^-16
Scale == 100000000

\* the digits of a fixed-point number are multiplied in two halves
Half == 10000

\* pi / 180 in fixed point (RADIANS)
PiOver180 == 1745329

\* the radius of the sphere, in metres
EarthRadius == 6371000

\* the exact product of two fixed-point numbers, as a wide number
Mul2(a, b) ==
    LET ah == a \div Half
        al == a % Half
        bh == b \div Half
        bl == b % Half
        m  == ah * bl + al * bh
        lo == (m % Half) * Half + al * bl
    IN  <<ah * bh + (m \div Half) + (lo \div Scale), lo % Scale>>

\* the product of two fixed-point numbers, in fixed point
FMul(a, b) == Mul2(a, b)[1]

\* sum of two wide numbers
WAdd(u, v) == <<u[1] + v[1] + ((u[2] + v[2]) \div Scale), (u[2] + v[2]) % Scale>>

\* a wide number times a fixed-point number
WScale(w, c) == WAdd(Mul2(w[1], c), <<0, FMul(w[2], c)>>)

WLe(u, v) == u[1] < v[1] \/ (u[1] = v[1] /\ u[2] <= v[2])

\* the largest y in lo..hi whose square does not exceed the wide number w
RECURSIVE Search(_, _, _)
Search(w, lo, hi) ==
    IF lo >= hi THEN lo
    ELSE LET mid == (lo + hi + 1) \div 2
         IN  IF WLe(Mul2(mid, mid), w) THEN Search(w, mid, hi)
                                       ELSE Search(w, lo, mid - 1)

\* SQRT of a wide number not above 1, in fixed point
Sqrt(w) == Search(w, 0, Scale)

\* SIN, COS and ASIN of a small fixed-point argument (|x| < 0.1), by the
\* leading terms of their power series
Sin(x) ==
    LET x2 == FMul(x, x)
        x3 == FMul(x2, x)
    IN  x - (x3 \div 6) + (FMul(x3, x2) \div 120)

Cos(x) ==
    LET x2 == FMul(x, x)
    IN  Scale - (x2 \div 2) + (FMul(x2, x2) \div 24)

Asin(z) ==
    LET z2 == FMul(z, z)
        z3 == FMul(z2, z)
    IN  z + (z3 \div 6) + ((3 * FMul(z3, z2)) \div 40)

\* RADIANS of an angle given in thousandths of a degree; SIN(.)^2 and COS
\* are even, so the magnitude is converted
Radians(m) == FMul(Abs(m) * 100000, PiOver180)

\* variant: R * ASIN(SQRT(.)), the factor 2 is missing
GreatCircle_half(a) == FMul(EarthRadius * 100, Asin(Sqrt(a)))

\* 2 * 6371000 * ASIN(SQRT(a)), in centimetres
GreatCircle(a) == FMul(2 * EarthRadius * 100, Asin(Sqrt(a)))

\* the distance_m expression for a row at (lat, lon), with the three
\* parameters bound in the order of the ? marks; angles in thousandths of
\* a degree, result in centimetres
haversine_cm(lat, lon, p_lat, p_coslat, p_lon) ==
    LET s1 == Sin(Radians(lat - p_lat) \div 2)
        s2 == Sin(Radians(lon - p_lon) \div 2)
        cc == FMul(Cos(Radians(p_coslat)), Cos(Radians(lat)))
    IN  GreatCircle(WAdd(Mul2(s1, s1), WScale(Mul2(s2, s2), cc)))

(* ---------------------------------------------------------------------- *)
(* HavSpec: the distance between a reference point and a row point,       *)
(* measured from each of them                                             *)
(* ---------------------------------------------------------------------- *)

\* latitudes and longitudes, in thousandths of a degree
HavLats == {-1000, 0, 1, 1000}
HavLons == {0, 1, 1000}
HavPoints == HavLats \X HavLons

HavInit ==
    /\ RlInit
    /\ NoCtl
    /\ NoAuth
    /\ NoStore
    /\ havPair \in [ref : HavPoints, row : HavPoints]
    /\ havOut = NotMeasured

\* the nearby query evaluated for the row seen from the reference point
\* (params = (ref_lat, ref_lat, ref_lon, limit)), and with the two points
\* exchanged
Measure ==
    LET ref == havPair.ref
        row == havPair.row
    IN  /\ ~havOut.done
        /\ havOut' = [done  |-> TRUE,
                      there |-> haversine_cm(row[1], row[2], ref[1], ref[1], ref[2]),
                      back  |-> haversine_cm(ref[1], ref[2], row[1], row[1], row[2])]
        /\ UNCHANGED <<havPair, rlVars, ctlVars, authVars, storeVars>>

HavNext == Measure

HavSpec == HavInit /\ [][HavNext]_vars

(* ---------------------------------------------------------------------- *)
(* C22 (HavSpec)                                                          *)
(* ---------------------------------------------------------------------- *)

\* C22: the distance of the nearby queries is the haversine great-circle
\* distance with R = 6371000 m: a point is at distance 0 from itself, the
\* distance is the same measured from either point, and two points one
\* degree of latitude apart are 111,195 m apart, within 1 m.
C22_Haversine ==
    havOut.done =>
        /\ havPair.ref = havPair.row => havOut.there = 0
        /\ havOut.there = havOut.back
        /\ (/\ havPair.ref[2] = havPair.row[2]
            /\ havPair.ref[1] - havPair.row[1] \in {-1000, 1000})
           => /\ havOut.there >= (111195 - 1) * 100
              /\ havOut.there <= (111195 + 1) * 100

\* two points on a meridian, one degree apart, away from the equator on
\* one side, have been measured
C22_Witness ==
    /\ havOut.done
    /\ havPair.ref = <<-1000, 1000>>
    /\ havPair.row = <<0, 1000>>
    /\ havOut.there > 0

(* ---------------------------------------------------------------------- *)
(* C23, C26 (CtrlSpec)                                                    *)
(* ---------------------------------------------------------------------- *)

\* C23: a successful get_nearby_by_name call issues exactly one reference
\* query followed by exactly one nearby query, in that order; when the
\* reference query yields no row, or fails, the call ends without ever
\* issuing the nearby query.
C23_ReferenceThenNearby ==
    ctlCall.op = "get_nearby_by_name" =>
        /\ queries[1].q.sql = "ref"
        /\ outcome.kind = "return" =>
               /\ Len(queries) = 2
               /\ queries[2].q.sql = "nearby"
        /\ (queries[1].r.fault # "ok" \/ queries[1].r.rows = <<>>) =>
               \A k \in DOMAIN queries : queries[k].q.sql # "nearby"
        /\ Cardinality({k \in DOMAIN queries : queries[k].q.sql = "ref"}) = 1
        /\ Cardinality({k \in DOMAIN queries : queries[k].q.sql = "nearby"}) <= 1

\* the reference query failed on a dataset that holds a matching stop,
\* and the call ended there
C23_Witness ==
    /\ ctlCall.op = "get_nearby_by_name"
    /\ RefMatches # {}
    /\ queries[1].r.fault = "FileNotFoundError"
    /\ Len(queries) = 1
    /\ outcome.kind = "raise"

\* the distance of dataset row i from the point the nearby query measures
\* from
DistanceFrom(pt, i) ==
    HaversineSteps(Abs(stops[i].latitude - pt.lat), Abs(stops[i].longitude - pt.lon))

\* dataset row i as the nearby query reports it
Reported(pt, i) ==
    [stop_code |-> stops[i].stop_code, stop_name |-> Upper(stops[i].stop_name),
     latitude |-> stops[i].latitude, longitude |-> stops[i].longitude,
     distance_m |-> DistanceFrom(pt, i)]

\* C26: filter and limit commute: the result of a nearby call (filter
\* after limit) equals the first limit rows of a distance-ascending list
\* of all in-radius rows of the dataset, for every dataset, radius and
\* limit.
C26_FilterLimitCommute ==
    NearbyReturned =>
        LET pt     == MeasuredFrom
            inside == InRadius(stops, pt, ctlCall.radius_m)
            n      == Min(ctlCall.limit, Cardinality(inside))
        IN  \E f \in [1..n -> inside] :
                /\ \A j, k \in 1..n : j # k => f[j] # f[k]
                /\ \A j, k \in 1..n : j < k => DistanceFrom(pt, f[j]) <= DistanceFrom(pt, f[k])
                /\ \A i \in inside \ {f[k] : k \in 1..n} :
                       \A k \in 1..n : DistanceFrom(pt, f[k]) <= DistanceFrom(pt, i)
                /\ outcome.results = [k \in 1..n |-> Reported(pt, f[k])]

\* more rows lie within the radius than limit allows, at different
\* distances, and the row that comes first in the file is the farther one
C26_Witness ==
    /\ NearbyReturned
    /\ Cardinality(InRadius(stops, MeasuredFrom, ctlCall.radius_m)) > ctlCall.limit
    /\ DistanceFrom(MeasuredFrom, 1) > DistanceFrom(MeasuredFrom, 2)
    /\ Len(outcome.results) = ctlCall.limit

(* ---------------------------------------------------------------------- *)
(* C24, C25 (Spec)                                                        *)
(* ---------------------------------------------------------------------- *)

\* the instants a trailing interval can end at
Instants == 0..(MaxTime + WINDOW_SECONDS)

\* the admitted calls of client c with a timestamp in (from, to]
AdmittedIn(c, from, to) ==
    {j \in CallsOf(c) : trace[j].result /\ trace[j].now > from /\ trace[j].now <= to}

\* the admitted calls of client c with a timestamp in [from, to]
AdmittedInClosed(c, from, to) ==
    {j \in CallsOf(c) : trace[j].result /\ trace[j].now >= from /\ trace[j].now <= to}

\* C24: sliding-window guarantee: with a non-decreasing clock, for every
\* client and every instant t, at most MAX_REQUESTS admitted calls of the
\* client have a timestamp in (t - WINDOW_SECONDS, t], after any sequence
\* of calls. (The closed interval [t - W, t] can hold more: C24_Witness.)
C24_SlidingWindow ==
    ClockMonotone(Len(trace)) =>
        \A c \in Clients, t \in Instants :
            Cardinality(AdmittedIn(c, t - WINDOW_SECONDS, t)) <= MAX_REQUESTS

\* with a non-decreasing clock a client has been admitted more than
\* MAX_REQUESTS times within a closed interval [t - W, t], while every
\* half-open interval holds at most MAX_REQUESTS
C24_Witness ==
    /\ ClockMonotone(Len(trace))
    /\ \E c \in Clients, t \in Instants :
           /\ Cardinality(AdmittedInClosed(c, t - WINDOW_SECONDS, t)) > MAX_REQUESTS
           /\ Cardinality(AdmittedIn(c, t - WINDOW_SECONDS, t)) = MAX_REQUESTS

\* the smallest timestamp of a non-empty list
Oldest(lst) == CHOOSE t \in {lst[k] : k \in DOMAIN lst} : \A k \in DOMAIN lst : t <= lst[k]

\* the client of call i calls again at j, and j is its first call made
\* once the oldest timestamp retained at i is WINDOW_SECONDS or more old
FirstAfterExpiry(i, j) ==
    /\ i < j
    /\ trace[i].client = trace[j].client
    /\ trace[j].now - Oldest(ListAfter(i)) >= WINDOW_SECONDS
    /\ \A k \in CallsOf(trace[i].client) :
           (i < k /\ k < j) => trace[k].now - Oldest(ListAfter(i)) < WINDOW_SECONDS

\* C25: no permanent lockout: with a non-decreasing clock, a client that
\* was rejected is admitted at its first call made once its oldest
\* retained timestamp is WINDOW_SECONDS or more old; the calls it makes in
\* between are rejected and change nothing, however many they are.
C25_NoPermanentLockout ==
    \A i, j \in Calls :
        (ClockMonotone(j) /\ ~trace[i].result /\ FirstAfterExpiry(i, j)) =>
            /\ trace[j].result
            /\ \A k \in CallsOf(trace[i].client) :
                   (i < k /\ k < j) =>
                       /\ ~trace[k].result
                       /\ ListAfter(k) = ListAfter(i)

\* a rejected client is rejected again before the expiry of its oldest
\* timestamp, then admitted at the expiry, keeping a younger timestamp
C25_Witness ==
    \E i, k, j \in Calls :
        /\ i < k /\ k < j
        /\ trace[k].client = trace[i].client
        /\ ClockMonotone(j)
        /\ ~trace[i].result
        /\ FirstAfterExpiry(i, j)
        /\ trace[j].now - Oldest(ListAfter(i)) = WINDOW_SECONDS
        /\ trace[j].result
        /\ Len(ListAfter(j)) >= 2

(* ---------------------------------------------------------------------- *)
(* C27 (MwSpec)                                                           *)
(* ---------------------------------------------------------------------- *)

\* C27: admission precedes authentication: for every request the
\* rate-limit check has run, and admitted it, before the API-key check or
\* a handler runs; the admission records one timestamp in the client's
\* window, and the answer to the request (401 for a wrong or missing key,
\* the health endpoint's 200, any other) leaves that timestamp in place,
\* so the request counts against MAX_REQUESTS.
C27_AdmissionBeforeAuth ==
    [][\A r \in Reqs :
          /\ (authRun'[r] \/ handlerRun'[r]) => (ret'[r] = "True" /\ rlCalls'[r] = 1)
          /\ (ret[r] # "True" /\ ret'[r] = "True") =>
                 Len(Entry(REQUESTS', client[r])) = Len(Entry(REQUESTS, client[r])) + 1
          /\ (pc[r] = "awaiting" /\ pc'[r] = "done") =>
                 /\ status'[r] \in {200, 401, 404}
                 /\ REQUESTS' = REQUESTS]_vars

\* a request admitted and then refused for its API key is being answered
\* while the window of its client is full and another request of that
\* client has been refused with 429
C27_Witness ==
    \E r1, r2 \in Reqs :
        /\ pc[r1] = "done" /\ status[r1] = 401 /\ authRun[r1] /\ ~handlerRun[r1]
        /\ pc[r2] = "done" /\ status[r2] = 429
        /\ client[r1] = client[r2]
        /\ Len(Entry(REQUESTS, client[r1])) = MAX_REQUESTS

(* ---------------------------------------------------------------------- *)
(* StoreSpec: query_stops (utils/parquet.py), statement by statement      *)
(* ---------------------------------------------------------------------- *)

\* longest sequence of query_stops calls explored by StoreSpec
MaxQueries == 3

\* the latest call
Cur == Len(qLog)

\* the latest call with its end, or its connection, set
Ended(how) == [qLog EXCEPT ![Cur].end = how]
Conn(state) == [qLog EXCEPT ![Cur].con = state]

\* parquet.py:8: query_stops(sql, params) is entered; params is None or
\* a tuple
QEnter ==
    /\ qpc = "idle"
    /\ Cur < MaxQueries
    /\ \E has_params \in BOOLEAN :
          qLog' = Append(qLog, [has_params |-> has_params,
                                end |-> "running", con |-> "none"])
    /\ qpc' = "exists"
    /\ UNCHANGED <<rlVars, ctlVars, authVars, havVars>>

\* parquet.py:19-20: raise FileNotFoundError when the file is missing
QExists ==
    /\ qpc = "exists"
    /\ \E present \in BOOLEAN :
          IF present
          THEN /\ qpc' = "connect"
               /\ UNCHANGED qLog
          ELSE /\ qpc' = "idle"
               /\ qLog' = Ended("FileNotFoundError")
    /\ UNCHANGED <<rlVars, ctlVars, authVars, havVars>>

\* parquet.py:23: con = duckdb.connect()
QConnect ==
    /\ qpc = "connect"
    /\ qLog' = Conn("open")
    /\ qpc' = "view"
    /\ UNCHANGED <<rlVars, ctlVars, authVars, havVars>>

\* parquet.py:26: con.execute("CREATE VIEW stops AS ..."), which may raise;
\* nothing catches the exception, so it leaves query_stops here
QView ==
    /\ qpc = "view"
    /\ \E ok \in BOOLEAN :
          IF ok
          THEN /\ qpc' = "execute"
               /\ UNCHANGED qLog
          ELSE /\ qpc' = "idle"
               /\ qLog' = Ended("duckdb.Error")
    /\ UNCHANGED <<rlVars, ctlVars, authVars, havVars>>

\* parquet.py:29-32: con.execute(sql).df() or con.execute(sql, params).df(),
\* which may raise; nothing catches the exception
QExecute ==
    /\ qpc = "execute"
    /\ \E ok \in BOOLEAN :
          IF ok
          THEN /\ qpc' = "close"
               /\ UNCHANGED qLog
          ELSE /\ qpc' = "idle"
               /\ qLog' = Ended("duckdb.Error")
    /\ UNCHANGED <<rlVars, ctlVars, authVars, havVars>>

\* parquet.py:35: con.close()
QClose ==
    /\ qpc = "close"
    /\ qLog' = Conn("closed")
    /\ qpc' = "return"
    /\ UNCHANGED <<rlVars, ctlVars, authVars, havVars>>

\* parquet.py:38: return result_df.to_dict(orient="records")
QReturn ==
    /\ qpc = "return"
    /\ qLog' = Ended("returned")
    /\ qpc' = "idle"
    /\ UNCHANGED <<rlVars, ctlVars, authVars, havVars>>

\* the interpreter finalizes the connection object of a call that raised,
\* at some moment after the exception and its traceback were released
Finalize ==
    /\ \E k \in DOMAIN qLog :
          /\ qLog[k].end \notin {"running", "returned"}
          /\ qLog[k].con = "open"
          /\ qLog' = [qLog EXCEPT ![k].con = "finalized"]
    /\ UNCHANGED <<qpc, rlVars, ctlVars, authVars, havVars>>

StoreInit ==
    /\ RlInit
    /\ NoCtl
    /\ NoAuth
    /\ NoHav
    /\ NoStore

StoreNext ==
    \/ QEnter
    \/ QExists
    \/ QConnect
    \/ QView
    \/ QExecute
    \/ QClose
    \/ QReturn
    \/ Finalize

StoreSpec == StoreInit /\ [][StoreNext]_vars

(* ---------------------------------------------------------------------- *)
(* C28 (StoreSpec)                                                        *)
(* ---------------------------------------------------------------------- *)

\* C28: connection lifecycle: every DuckDB connection opened by
\* query_stops is closed before the call returns or raises, on every path
\* (missing file, view creation, query success, query error), so after
\* any sequence of calls no connection is left open.
C28_ConnectionsClosed ==
    \A k \in DOMAIN qLog :
        qLog[k].end # "running" => qLog[k].con \in {"none", "closed"}

====
